---- MODULE Spec2Model ----
(***************************************************************************)
(* Transaction serialisation / hashing (src/lib/rlp/transaction.ts) and    *)
(* the block-range fetcher of the JSON-RPC provider                        *)
(* (src/lib/provider/index.ts).                                            *)
(*                                                                         *)
(* JavaScript values are tagged records [t, v]: a string is the sequence   *)
(* of its characters, an array the sequence of its elements, an object the *)
(* record of its properties.  A call ends in Ok(value) or Throw(error).    *)
(***************************************************************************)
EXTENDS Integers, Sequences, FiniteSets, TLC

(* ------------------------------ bounds --------------------------------- *)
MaxHexLen == 2        \* hex digits after "0x" in the enumerated field values
MaxTxs == 3           \* entries in an enumerated transactions list
MaxCallStack == 3     \* call-stack frames the engine grants before RangeError
MaxHead == 4          \* highest block number the chain reaches
MaxTotal == 4         \* largest total asked of fetchTransactionsOverBlockRange
MaxLimit == 3         \* largest limit asked of fetchTransactionsOverBlockRange

(* --------------------------- JavaScript values ------------------------- *)
Str(chars) == [t |-> "string", v |-> chars]
Arr(elems) == [t |-> "array", v |-> elems]
Obj(props) == [t |-> "object", v |-> props]
Undefined == [t |-> "undefined", v |-> <<>>]

Ok(val) == [ok |-> TRUE, v |-> val, err |-> "none"]
Throw(e) == [ok |-> FALSE, v |-> <<>>, err |-> e]

\* Uint8Array / Buffer contents and the empty JS array literal, as RLP input
Bytes(b) == [t |-> "bytes", v |-> b]
List(items) == [t |-> "list", v |-> items]

HexChars == {"0", "1", "8"}
\* parseInt(c, 16) of one hex digit
HexValue == [c \in HexChars |-> CASE c = "0" -> 0 [] c = "1" -> 1 [] c = "8" -> 8]

\* '0x' followed by the given digits
Hex(digits) == Str(<<"0", "x">> \o digits)

RECURSIVE SeqsUpTo(_, _)
SeqsUpTo(S, n) ==
    IF n = 0 THEN {<<>>}
    ELSE LET shorter == SeqsUpTo(S, n - 1)
         IN  shorter \cup {Append(s, x) : s \in shorter, x \in S}

(* ------------------------- src/lib/utils/conversion -------------------- *)
\* hexZeroPad(value, length): left-pad the digits with "0" to 2*length digits
RECURSIVE hexZeroPad(_, _)
hexZeroPad(value, length) ==
    IF Len(value) >= 2 * length + 2 THEN value
    ELSE hexZeroPad(<<"0", "x", "0">> \o SubSeq(value, 3, Len(value)), length)

(* ------------------------------ ./rlp ---------------------------------- *)
RECURSIVE BigEndian(_)
BigEndian(n) == IF n = 0 THEN <<>> ELSE BigEndian(n \div 256) \o <<n % 256>>

encodeLength(len, offset) ==
    IF len <= 55 THEN <<offset + len>>
    ELSE LET be == BigEndian(len) IN <<offset + 55 + Len(be)>> \o be

RECURSIVE encode(_)
RECURSIVE encodeItems(_)
encodeItems(items) ==
    IF Len(items) = 0 THEN <<>> ELSE encode(Head(items)) \o encodeItems(Tail(items))

encode(item) ==
    IF item.t = "bytes"
    THEN IF Len(item.v) = 1 /\ item.v[1] < 128 THEN item.v
         ELSE encodeLength(Len(item.v), 128) \o item.v
    ELSE LET payload == encodeItems(item.v)
         IN  encodeLength(Len(payload), 192) \o payload

(* --------------------------- keccak (external) ------------------------- *)
\* hexify(createKeccakHash('keccak256').update(b).digest('hex')): the digest
\* is an uninterpreted, injective function of the serialised bytes
hexDigest(serialised) == [keccak256 |-> serialised]

(* ----------------------- src/lib/rlp/transaction.ts -------------------- *)
\* property read tx.name: undefined on a missing property or on a primitive
Get(val, name) ==
    IF val.t = "object" /\ name \in DOMAIN val.v THEN val.v[name] ELSE Undefined

IsStr(val, chars) == val.t = "string" /\ val.v = chars

toByteArr(field) ==
    IF field.t # "string" THEN Throw("TypeError")
    ELSE LET suffix == SubSeq(field.v, 3, Len(field.v))
             byteLength == (Len(suffix) + 1) \div 2
             full == hexZeroPad(field.v, byteLength)
             padded == SubSeq(full, 3, Len(full))
         IN  Ok(Bytes([i \in 1..(Len(padded) \div 2) |->
                        16 * HexValue[padded[2 * i - 1]] + HexValue[padded[2 * i]]]))

RECURSIVE convertToByteArrayAt(_, _)

convertToByteArrayNoZeroCase(field, depth) ==
    IF depth > MaxCallStack THEN Throw("RangeError")
    ELSE IF field.t = "array" /\ Len(field.v) = 0 THEN Ok(List(<<>>))
    ELSE IF field.t # "array" THEN toByteArr(field)
    ELSE convertToByteArrayAt(field, depth + 1)

\* one frame of convertToByteArray, depth frames deep on the call stack
convertToByteArrayAt(field, depth) ==
    IF depth > MaxCallStack THEN Throw("RangeError")
    ELSE LET isNested == field.t = "array"
             emptyArr == isNested /\ Len(field.v) = 0
         IN  IF emptyArr THEN Ok(List(<<>>))
             ELSE IF ~isNested
                  THEN IF IsStr(field, <<"0", "x", "0">>) THEN Ok(Bytes(<<>>))
                       ELSE toByteArr(field)
                  ELSE convertToByteArrayAt(field, depth + 1)

convertToByteArray(field) == convertToByteArrayAt(field, 1)

\* tuple.map((field) => convertToByteArray(field)); the first throw ends the map
RECURSIVE toByteTuple(_)
toByteTuple(tuple) ==
    IF Len(tuple) = 0 THEN Ok(<<>>)
    ELSE LET first == convertToByteArray(Head(tuple))
         IN  IF ~first.ok THEN first
             ELSE LET rest == toByteTuple(Tail(tuple))
                  IN  IF ~rest.ok THEN rest ELSE Ok(<<first.v>> \o rest.v)

RawLegacyTuple ==
    <<"nonce", "gasPrice", "gas", "to", "value", "input", "v", "r", "s">>

Raw2930Tuple ==
    <<"chainId", "nonce", "gasPrice", "gas", "to", "value", "input", "accessList",
      "v", "r", "s">>

Raw1559TupleFeesSwapped ==
    <<"chainId", "nonce", "maxFeePerGas", "maxPriorityFeePerGas", "gas", "to", "value",
      "input", "accessList", "v", "r", "s">>

Raw1559Tuple ==
    <<"chainId", "nonce", "maxPriorityFeePerGas", "maxFeePerGas", "gas", "to", "value",
      "input", "accessList", "v", "r", "s">>

txLayoutDefault1559(tx) ==
    LET type == Get(tx, "type")
    IN  IF IsStr(type, <<"0", "x", "1">>) THEN Raw2930Tuple
        ELSE IF IsStr(type, <<"0", "x", "0">>) THEN RawLegacyTuple
        ELSE Raw1559Tuple

\* switch (tx.type): the field names destructured by the selected case
txLayout(tx) ==
    LET type == Get(tx, "type")
    IN  IF IsStr(type, <<"0", "x", "1">>) THEN Raw2930Tuple
        ELSE IF IsStr(type, <<"0", "x", "2">>) THEN Raw1559Tuple
        ELSE RawLegacyTuple

\* Buffer.from('01', 'hex') / Buffer.from('02', 'hex'); none in the default case
txTypePrefix(tx) ==
    LET type == Get(tx, "type")
    IN  IF IsStr(type, <<"0", "x", "1">>) THEN <<1>>
        ELSE IF IsStr(type, <<"0", "x", "2">>) THEN <<2>>
        ELSE <<>>

txTuple(tx) == LET names == txLayout(tx) IN [i \in 1..Len(names) |-> Get(tx, names[i])]

\* the lists serialiseTransaction(tx) hands to rlp.encode: one, or none on a throw
encoderInput(tx) ==
    LET byteTuple == toByteTuple(txTuple(tx))
    IN  IF byteTuple.ok THEN <<byteTuple.v>> ELSE <<>>

serialiseTransaction(tx) ==
    LET byteTuple == toByteTuple(txTuple(tx))
    IN  IF ~byteTuple.ok THEN byteTuple
        ELSE Ok(txTypePrefix(tx) \o encode(List(byteTuple.v)))

\* arr.map((tx) => serialiseTransaction(tx))
RECURSIVE serialiseTransactions(_)
serialiseTransactions(arr) ==
    IF Len(arr) = 0 THEN Ok(<<>>)
    ELSE LET first == serialiseTransaction(Head(arr))
         IN  IF ~first.ok THEN first
             ELSE LET rest == serialiseTransactions(Tail(arr))
                  IN  IF ~rest.ok THEN rest ELSE Ok(<<first.v>> \o rest.v)

calculateTransactionHash(tx) ==
    LET serialised == serialiseTransaction(tx)
    IN  IF ~serialised.ok THEN serialised ELSE Ok(hexDigest(serialised.v))

\* arr.forEach((t) => hashes.push(calculateTransactionHash(t)))
RECURSIVE hashEach(_)
hashEach(arr) ==
    IF Len(arr) = 0 THEN Ok(<<>>)
    ELSE LET first == calculateTransactionHash(Head(arr))
         IN  IF ~first.ok THEN first
             ELSE LET rest == hashEach(Tail(arr))
                  IN  IF ~rest.ok THEN rest ELSE Ok(<<first.v>> \o rest.v)

\* arr[0]: undefined on the empty array
At0(arr) == IF Len(arr) = 0 THEN Undefined ELSE arr[1]

\* typeof val
TypeOf(val) == IF val.t = "array" THEN "object" ELSE val.t

calculateTransactionHashesUnguarded(arr) == hashEach(arr)

calculateTransactionHashes(arr) ==
    IF TypeOf(At0(arr)) # "string" THEN hashEach(arr) ELSE Ok(<<>>)

\* block.transactions[0] === 'string': equal to the six-character literal
isCondensedTest(block) ==
    IsStr(At0(block.transactions), <<"s", "t", "r", "i", "n", "g">>)

CondensedDiagnostic == "Block supplied does not consist of an array of transaction objects"

calculateBlockTransactionHashes(block) ==
    IF isCondensedTest(block) THEN Ok(<<>>)
    ELSE calculateTransactionHashes(block.transactions)

\* what calculateBlockTransactionHashes(block) writes with console.error
blockDiagnostics(block) ==
    IF isCondensedTest(block) THEN <<CondensedDiagnostic>> ELSE <<>>

(* ------------------------------ inputs --------------------------------- *)
ScalarFields ==
    {"chainId", "nonce", "gasPrice", "maxPriorityFeePerGas", "maxFeePerGas", "gas",
     "to", "value", "input", "v", "r", "s"}

\* hex strings '0x', '0x0', '0x1', ... of at most MaxHexLen digits
HexStrings == {Hex(d) : d \in SeqsUpTo(HexChars, MaxHexLen)}

\* the values of tx.type: legacy, EIP-2930, EIP-1559, an unknown type, absent
TxTypes == {Hex(<<"0">>), Hex(<<"1">>), Hex(<<"2">>), Hex(<<"3">>), Undefined}

AccessEntry(address, keys) == Obj([address |-> address, storageKeys |-> Arr(keys)])

AccessLists ==
    {Arr(<<>>),
     Arr(<<AccessEntry(Hex(<<"1", "0">>), <<Hex(<<"0", "1">>)>>)>>),
     Arr(<<AccessEntry(Hex(<<"1", "0">>), <<>>),
           AccessEntry(Hex(<<"8", "8">>), <<Hex(<<"0", "0">>), Hex(<<"8", "1">>)>>)>>)}

\* a transaction record whose scalar fields all normalise to different bytes
BaseFields ==
    [type |-> Undefined, accessList |-> Arr(<<>>),
     chainId |-> Hex(<<"1">>), nonce |-> Hex(<<"0">>), gasPrice |-> Hex(<<"8">>),
     maxPriorityFeePerGas |-> Hex(<<"1", "0">>), maxFeePerGas |-> Hex(<<"1", "1">>),
     gas |-> Hex(<<"1", "8">>), to |-> Hex(<<"8", "0">>), value |-> Hex(<<"8", "1">>),
     input |-> Hex(<<"0", "0">>), v |-> Hex(<<"8", "8">>), r |-> Hex(<<"1", "0", "8">>),
     s |-> Hex(<<"1", "8", "0">>)]

MkTx(fields, type, accessList) ==
    Obj([fields EXCEPT !["type"] = type, !["accessList"] = accessList])

\* RawTransaction: the base record with one scalar field varied, every type, every list
Transactions ==
    {MkTx([BaseFields EXCEPT ![f] = h], type, al) :
        f \in ScalarFields, h \in HexStrings, type \in TxTypes, al \in AccessLists}

\* entries of a block's transactions array: full records, hash strings, 'string'
ListEntries ==
    <<MkTx(BaseFields, Undefined, Arr(<<>>)),
      MkTx(BaseFields, Hex(<<"1">>), Arr(<<>>)),
      MkTx(BaseFields, Hex(<<"2">>), Arr(<<>>)),
      MkTx(BaseFields, Hex(<<"2">>),
           Arr(<<AccessEntry(Hex(<<"1", "0">>), <<Hex(<<"0", "1">>)>>)>>)),
      Hex(<<"8", "1">>),
      Hex(<<"1", "8">>),
      Str(<<"s", "t", "r", "i", "n", "g">>)>>

\* a transactions array, as the positions in ListEntries of its entries
EntryChoices == SeqsUpTo(1..Len(ListEntries), MaxTxs)

TransactionList(choice) == [k \in 1..Len(choice) |-> ListEntries[choice[k]]]

(* ------------------------------- state --------------------------------- *)
VARIABLES
    call,       \* the exported function last called and its argument
    ret,        \* what that call returned or threw
    handed,     \* the lists that call handed to rlp.encode, in order
    console     \* what that call wrote with console.error

codecVars == <<call, ret, handed, console>>

VARIABLES
    head,           \* number of the latest block of the chain behind the endpoint
    pc,             \* where fetchTransactionsOverBlockRange stands
    startingBlock,  \* its arguments
    total,
    limit,
    prep,           \* the running prepareBlockRangeQuery: caller, arguments, currentHead
    params,         \* block numbers of the full groups
    finalGroup,     \* block numbers of the last, shorter group
    loopI,          \* the loop variable i
    result,
    progress,
    blockNumberArr, \* of the running _fetchTransactionsOverBlockRange
    txHashArr,
    inflight,       \* indexes whose getBlockByNumber request awaits its response
    err             \* the error the call threw

fetchVars ==
    <<pc, startingBlock, total, limit, prep, params, finalGroup, loopI, result, progress,
      blockNumberArr, txHashArr, inflight, err>>

providerVars == <<head, fetchVars>>

vars == <<codecVars, providerVars>>

RECURSIVE handedAll(_)
handedAll(arr) ==
    IF Len(arr) = 0 THEN <<>>
    ELSE LET first == encoderInput(Head(arr))
         IN  IF Len(first) = 0 THEN <<>> ELSE first \o handedAll(Tail(arr))

NoPrep == [caller |-> "none", starting |-> 0, total |-> 0, currentHead |-> 0]

FetchIdle ==
    /\ pc = "idle"
    /\ startingBlock = 0
    /\ total = 0
    /\ limit = 0
    /\ prep = NoPrep
    /\ params = <<>>
    /\ finalGroup = <<>>
    /\ loopI = 0
    /\ result = <<>>
    /\ progress = 0
    /\ blockNumberArr = <<>>
    /\ txHashArr = <<>>
    /\ inflight = {}
    /\ err = "none"

Init ==
    /\ call = [op |-> "none", arg |-> <<>>]
    /\ ret = Ok(<<>>)
    /\ handed = <<>>
    /\ console = <<>>
    /\ head = 0
    /\ FetchIdle

Idle == call.op = "none"

Normalise ==
    /\ Idle
    /\ \E field \in HexStrings \cup {Hex(<<"0", "0", "0", "0">>)} :
           /\ call' = [op |-> "convertToByteArray", arg |-> field]
           /\ ret' = convertToByteArray(field)
    /\ handed' = <<>>
    /\ console' = <<>>
    /\ UNCHANGED providerVars

NormaliseNested ==
    /\ Idle
    /\ \E field \in AccessLists :
           /\ call' = [op |-> "convertToByteArray", arg |-> field]
           /\ ret' = convertToByteArray(field)
    /\ handed' = <<>>
    /\ console' = <<>>
    /\ UNCHANGED providerVars

SerialiseTransaction ==
    /\ Idle
    /\ \E tx \in Transactions :
           /\ call' = [op |-> "serialiseTransaction", arg |-> tx]
           /\ ret' = serialiseTransaction(tx)
           /\ handed' = encoderInput(tx)
    /\ console' = <<>>
    /\ UNCHANGED providerVars

SerialiseTransactions ==
    /\ Idle
    /\ \E c \in EntryChoices :
           LET arr == TransactionList(c)
           IN  /\ call' = [op |-> "serialiseTransactions", arg |-> arr]
               /\ ret' = serialiseTransactions(arr)
               /\ handed' = handedAll(arr)
    /\ console' = <<>>
    /\ UNCHANGED providerVars

CalculateTransactionHash ==
    /\ Idle
    /\ \E tx \in Transactions :
           /\ call' = [op |-> "calculateTransactionHash", arg |-> tx]
           /\ ret' = calculateTransactionHash(tx)
           /\ handed' = encoderInput(tx)
    /\ console' = <<>>
    /\ UNCHANGED providerVars

CalculateTransactionHashes ==
    /\ Idle
    /\ \E c \in EntryChoices :
           LET arr == TransactionList(c)
           IN  /\ call' = [op |-> "calculateTransactionHashes", arg |-> arr]
               /\ ret' = calculateTransactionHashes(arr)
               /\ handed' = IF TypeOf(At0(arr)) # "string" THEN handedAll(arr) ELSE <<>>
    /\ console' = <<>>
    /\ UNCHANGED providerVars

CalculateBlockTransactionHashes ==
    /\ Idle
    /\ \E c \in EntryChoices :
           LET block == [transactions |-> TransactionList(c)]
           IN  /\ call' = [op |-> "calculateBlockTransactionHashes", arg |-> block]
               /\ ret' = calculateBlockTransactionHashes(block)
               /\ handed' = IF isCondensedTest(block)
                                  \/ TypeOf(At0(block.transactions)) = "string"
                            THEN <<>> ELSE handedAll(block.transactions)
               /\ console' = blockDiagnostics(block)
    /\ UNCHANGED providerVars

\* the caller takes the result; the module keeps no state between calls
Return ==
    /\ UNCHANGED providerVars
    /\ call.op # "none"
    /\ call' = [op |-> "none", arg |-> <<>>]
    /\ ret' = Ok(<<>>)
    /\ handed' = <<>>
    /\ console' = <<>>

Next ==
    \/ Normalise
    \/ NormaliseNested
    \/ SerialiseTransaction
    \/ SerialiseTransactions
    \/ CalculateTransactionHash
    \/ CalculateTransactionHashes
    \/ CalculateBlockTransactionHashes
    \/ Return

Spec == Init /\ [][Next]_vars

(* ----------------------- src/lib/provider/index.ts --------------------- *)
\* the chain behind the JSON-RPC endpoint: block n carries n % 3 transactions
ChainTransactions(n) ==
    [j \in 1..(n % 3) |->
        [transactionIndex |-> Hex(<<IF j = 1 THEN "0" ELSE "1">>), hash |-> 16 * n + j]]

\* eth_getBlockByNumber: the block, or null for a number the chain has not reached
rpcBlock(n, chainHead) ==
    IF n <= chainHead THEN [null |-> FALSE, number |-> n, transactions |-> ChainTransactions(n)]
    ELSE [null |-> TRUE, number |-> 0, transactions |-> <<>>]

\* utils.decimal of a one-digit hex string
decimal(hex) == HexValue[hex.v[3]]

\* lodash range(from, to, 1)
range(from, to) == [k \in 1..(to - from) |-> from + k - 1]

\* the guard of prepareBlockRangeQuery that rejects a range
rangeRejected(startBlock, tot, currentHead) == startBlock + tot > currentHead

RangeError == "Range provided includes blocks that have not been added to the chain yet!"

\* [n, utils.decimal(t.transactionIndex), t.hash] for every transaction of block n
blockTuples(n, transactions) ==
    [j \in 1..Len(transactions) |->
        <<n, decimal(transactions[j].transactionIndex), transactions[j].hash>>]

Hole == [filled |-> FALSE, txs |-> <<>>]

\* txHashArr[i] = val on a JavaScript array: it grows, leaving holes, when i is past its end
assignAt(arr, i, val) ==
    [k \in 1..(IF i + 1 > Len(arr) THEN i + 1 ELSE Len(arr)) |->
        IF k = i + 1 THEN val ELSE IF k <= Len(arr) THEN arr[k] ELSE Hole]

\* array.slice(from, to) with JavaScript's negative indexes, 0-based, to excluded
slice(arr, from, to) ==
    LET n == Len(arr)
        lo == IF from < 0 THEN (IF n + from < 0 THEN 0 ELSE n + from) ELSE (IF from > n THEN n ELSE from)
        hi == IF to < 0 THEN (IF n + to < 0 THEN 0 ELSE n + to) ELSE (IF to > n THEN n ELSE to)
    IN  IF hi <= lo THEN <<>> ELSE SubSeq(arr, lo + 1, hi)

\* JavaScript's a % b for a <= 0 < b: the sign follows the dividend
jsRemNeg(a, b) == -((-a) % b)

\* a chain that grows while the program runs
NewBlock ==
    /\ head < MaxHead
    /\ head' = head + 1
    /\ UNCHANGED <<codecVars, fetchVars>>

\* prepareBlockRangeQuery(starting, tot) up to its first await: getLatestBlock is sent
startPrepare(caller, starting, tot) ==
    /\ prep' = [caller |-> caller, starting |-> starting, total |-> tot, currentHead |-> 0]
    /\ pc' = "awaitLatest"

\* the for loop's test and what follows it, up to the next await or the return
loopOrFinish(i, fullGroups, lastGroup) ==
    IF i < Len(fullGroups)
    THEN startPrepare("loop", startingBlock + i, limit)
    ELSE IF Len(lastGroup) > 0
    THEN startPrepare("final", lastGroup[1], Len(lastGroup))
    ELSE /\ pc' = "returned"
         /\ prep' = NoPrep

FetchTransactionsOverBlockRange(s, t, l) ==
    /\ pc = "idle"
    /\ startingBlock' = s
    /\ total' = t
    /\ limit' = l
    /\ result' = <<>>
    /\ finalGroup' = <<>>
    /\ progress' = 0
    /\ startPrepare("outer", s, t)
    /\ UNCHANGED <<codecVars, head, params, loopI, blockNumberArr, txHashArr, inflight, err>>

\* prepareBlockRangeQuery(starting, tot) called on its own, up to its first await
PrepareBlockRangeQuery(s, t) ==
    /\ pc = "idle"
    /\ startingBlock' = s
    /\ total' = t
    /\ startPrepare("direct", s, t)
    /\ UNCHANGED <<codecVars, head, limit, params, finalGroup, loopI, result, progress,
                   blockNumberArr, txHashArr, inflight, err>>

\* getLatestBlock answers: currentHead is read, getBlockByNumber(starting, true) is sent
LatestBlockResponse ==
    /\ pc = "awaitLatest"
    /\ prep' = [prep EXCEPT !.currentHead = head]
    /\ pc' = "awaitStart"
    /\ UNCHANGED <<codecVars, head, startingBlock, total, limit, params, finalGroup, loopI,
                   result, progress, blockNumberArr, txHashArr, inflight, err>>

throw(e) ==
    /\ pc' = "threw"
    /\ err' = e

\* getBlockByNumber(starting, true) answers inside prepareBlockRangeQuery
StartBlockResponse ==
    /\ pc = "awaitStart"
    /\ LET block == rpcBlock(prep.starting, head)
           startBlock == block.number
           query == range(startBlock, startBlock + prep.total)
       IN  IF block.null
           THEN /\ throw("TypeError")
                /\ UNCHANGED <<prep, params, finalGroup, loopI, blockNumberArr, txHashArr, inflight>>
           ELSE IF rangeRejected(startBlock, prep.total, prep.currentHead)
           THEN /\ throw(RangeError)
                /\ UNCHANGED <<prep, params, finalGroup, loopI, blockNumberArr, txHashArr, inflight>>
           ELSE IF prep.caller = "direct"
           THEN \* the range is returned to the caller
                /\ params' = query
                /\ pc' = "prepared"
                /\ UNCHANGED <<prep, finalGroup, loopI, blockNumberArr, txHashArr, inflight, err>>
           ELSE IF prep.caller = "outer"
           THEN LET split == Len(query) % limit # 0
                    sliceParam == jsRemNeg(-Len(query), limit)
                    lastGroup == IF split THEN slice(query, sliceParam, Len(query)) ELSE <<>>
                    fullGroups == IF split THEN slice(query, 0, sliceParam) ELSE query
                IN  /\ params' = fullGroups
                    /\ finalGroup' = lastGroup
                    /\ loopI' = 0
                    /\ loopOrFinish(0, fullGroups, lastGroup)
                    /\ UNCHANGED <<blockNumberArr, txHashArr, inflight, err>>
           ELSE \* _fetchTransactionsOverBlockRange: every closure sends its request
                /\ blockNumberArr' = query
                /\ txHashArr' = <<>>
                /\ inflight' = 0..(Len(query) - 1)
                /\ pc' = "awaitGroup"
                /\ UNCHANGED <<prep, params, finalGroup, loopI, err>>
    /\ UNCHANGED <<codecVars, head, startingBlock, total, limit, result, progress>>

storeBlock(arr, i, n, transactions) ==
    assignAt(arr, i, [filled |-> TRUE, txs |-> blockTuples(n, transactions)])

\* the response to the request of fetchBlockClosure(n, i) arrives, in any order
BlockResponse(i) ==
    /\ pc = "awaitGroup"
    /\ i \in inflight
    /\ LET n == blockNumberArr[i + 1]
           block == rpcBlock(n, head)
       IN  IF block.null
           THEN /\ throw("TypeError")
                /\ inflight' = {}
                /\ UNCHANGED txHashArr
           ELSE /\ txHashArr' = storeBlock(txHashArr, i, n, block.transactions)
                /\ inflight' = inflight \ {i}
                /\ UNCHANGED <<pc, err>>
    /\ UNCHANGED <<codecVars, head, startingBlock, total, limit, prep, params, finalGroup,
                   loopI, result, progress, blockNumberArr>>

\* Promise.all resolves: the group is appended and the loop goes on
GroupDone ==
    /\ pc = "awaitGroup"
    /\ inflight = {}
    /\ result' = result \o txHashArr
    /\ IF prep.caller = "loop"
       THEN /\ progress' = progress + limit
            /\ loopI' = loopI + limit
            /\ loopOrFinish(loopI + limit, params, finalGroup)
       ELSE /\ progress' = progress + Len(finalGroup)
            /\ pc' = "returned"
            /\ prep' = NoPrep
            /\ UNCHANGED loopI
    /\ UNCHANGED <<codecVars, head, startingBlock, total, limit, params, finalGroup,
                   blockNumberArr, txHashArr, inflight, err>>

\* the caller takes the result or the error; the next call starts afresh
Settle ==
    /\ pc \in {"returned", "prepared", "threw"}
    /\ pc' = "idle"
    /\ startingBlock' = 0
    /\ total' = 0
    /\ limit' = 0
    /\ prep' = NoPrep
    /\ params' = <<>>
    /\ finalGroup' = <<>>
    /\ loopI' = 0
    /\ result' = <<>>
    /\ progress' = 0
    /\ blockNumberArr' = <<>>
    /\ txHashArr' = <<>>
    /\ inflight' = {}
    /\ err' = "none"
    /\ UNCHANGED <<codecVars, head>>

ProviderNext ==
    \/ NewBlock
    \/ \E s \in 0..MaxHead, t \in 1..MaxTotal, l \in 1..MaxLimit :
           FetchTransactionsOverBlockRange(s, t, l)
    \/ \E s \in 0..MaxHead, t \in 1..MaxTotal : PrepareBlockRangeQuery(s, t)
    \/ LatestBlockResponse
    \/ StartBlockResponse
    \/ \E i \in 0..(MaxLimit - 1) : BlockResponse(i)
    \/ GroupDone
    \/ Settle

ProviderSpec == Init /\ [][ProviderNext]_vars

(* ============================== claims ================================= *)
TypeIs(tx, digit) == IsStr(Get(tx, "type"), <<"0", "x", digit>>)

KnownType(tx) == TypeIs(tx, "0") \/ TypeIs(tx, "1") \/ TypeIs(tx, "2")

IsHashString(e) == e.t = "string" /\ Len(e.v) > 2 /\ e.v[1] = "0" /\ e.v[2] = "x"

IsRecord(e) == e.t = "object"

\* the field order the specification declares for each variant
DeclaredLegacy ==
    <<"nonce", "gasPrice", "gas", "to", "value", "input", "v", "r", "s">>

DeclaredAccessList ==
    <<"chainId", "nonce", "gasPrice", "gas", "to", "value", "input", "accessList",
      "v", "r", "s">>

DeclaredDynamicFee ==
    <<"chainId", "nonce", "maxPriorityFeePerGas", "maxFeePerGas", "gas", "to", "value",
      "input", "accessList", "v", "r", "s">>

DeclaredLayout(tx) ==
    IF TypeIs(tx, "1") THEN DeclaredAccessList
    ELSE IF TypeIs(tx, "2") THEN DeclaredDynamicFee
    ELSE DeclaredLegacy

DeclaredMarker(tx) ==
    IF TypeIs(tx, "1") THEN <<1>> ELSE IF TypeIs(tx, "2") THEN <<2>> ELSE <<>>

\* the access list with every address and storage key normalised, nesting kept
NormalisedAccessList(al) ==
    List([i \in 1..Len(al.v) |->
        List(<<convertToByteArray(al.v[i].v.address).v,
               List([k \in 1..Len(al.v[i].v.storageKeys.v) |->
                        convertToByteArray(al.v[i].v.storageKeys.v[k]).v])>>)])

\* the declared field list of tx, each scalar normalised, the access list nested
DeclaredItems(tx) ==
    LET names == DeclaredLayout(tx)
    IN  [i \in 1..Len(names) |->
            IF names[i] = "accessList" THEN NormalisedAccessList(Get(tx, "accessList"))
            ELSE convertToByteArray(Get(tx, names[i])).v]

\* C1: serialiseTransaction returns, for every transaction of type '0x0', '0x1' or
\* '0x2', the RLP encoding of its field list, preceded by the byte 0x01 for type
\* '0x1', by 0x02 for type '0x2', and by nothing for a Legacy transaction.
C1_TypeMarkerEnvelope ==
    (call.op = "serialiseTransaction" /\ KnownType(call.arg)) =>
        /\ ret.ok
        /\ ret.v = DeclaredMarker(call.arg) \o encode(List(DeclaredItems(call.arg)))

\* C2: the list serialiseTransaction hands to the RLP encoder has 9 (Legacy), 11
\* (AccessList) or 12 (DynamicFee) items, and its i-th item is the normalisation of
\* the i-th field of the declared order.
C2_FieldOrder ==
    (call.op = "serialiseTransaction" /\ Len(handed) > 0) =>
        LET tx == call.arg
            names == DeclaredLayout(tx)
        IN  /\ Len(handed) = 1
            /\ Len(names) = IF TypeIs(tx, "1") THEN 11 ELSE IF TypeIs(tx, "2") THEN 12 ELSE 9
            /\ Len(handed[1]) = Len(names)
            /\ \A i \in 1..Len(names) :
                   /\ convertToByteArray(Get(tx, names[i])).ok
                   /\ handed[1][i] = convertToByteArray(Get(tx, names[i])).v

C2_Witness ==
    /\ call.op = "serialiseTransaction"
    /\ TypeIs(call.arg, "2")
    /\ Len(handed) = 1
    /\ Len(handed[1]) = 12
    /\ handed[1][3] = Bytes(<<16>>)
    /\ handed[1][4] = Bytes(<<17>>)

\* C3: for every list L of full records, calculateTransactionHashes(L) has the length
\* of L and its i-th entry is calculateTransactionHash(L[i]); serialiseTransactions(L)
\* likewise holds serialiseTransaction(L[i]) at i.
C3_BatchPreservesOrder ==
    /\ (call.op = "calculateTransactionHashes"
        /\ \A i \in 1..Len(call.arg) : IsRecord(call.arg[i])) =>
            /\ ret.ok
            /\ Len(ret.v) = Len(call.arg)
            /\ \A i \in 1..Len(call.arg) :
                   /\ calculateTransactionHash(call.arg[i]).ok
                   /\ ret.v[i] = calculateTransactionHash(call.arg[i]).v
    /\ (call.op = "serialiseTransactions"
        /\ \A i \in 1..Len(call.arg) : IsRecord(call.arg[i])) =>
            /\ ret.ok
            /\ Len(ret.v) = Len(call.arg)
            /\ \A i \in 1..Len(call.arg) :
                   /\ serialiseTransaction(call.arg[i]).ok
                   /\ ret.v[i] = serialiseTransaction(call.arg[i]).v

IsCondensed(arr) == Len(arr) > 0 /\ \A i \in 1..Len(arr) : IsHashString(arr[i])

\* C4: for every block whose transactions are a non-empty list of hash strings,
\* calculateBlockTransactionHashes returns the empty list and raises no error.
C4_CondensedGivesEmpty ==
    (call.op = "calculateBlockTransactionHashes" /\ IsCondensed(call.arg.transactions)) =>
        /\ ret.ok
        /\ Len(ret.v) = 0

C4_Witness ==
    /\ call.op = "calculateBlockTransactionHashes"
    /\ IsCondensed(call.arg.transactions)
    /\ Len(call.arg.transactions) = 2
    /\ ret.ok
    /\ Len(ret.v) = 0

\* C5: for every block whose transactions are a non-empty list of hash strings,
\* calculateBlockTransactionHashes writes its diagnostic with console.error.
C5_CondensedDiagnostic ==
    (call.op = "calculateBlockTransactionHashes" /\ IsCondensed(call.arg.transactions)) =>
        console # <<>>

IsZeroHex(field) ==
    /\ IsHashString(field)
    /\ \A i \in 3..Len(field.v) : field.v[i] = "0"

\* C6: for every hex string whose numeric value is zero ('0x0', '0x00', ...),
\* convertToByteArray returns the empty byte sequence.
C6_ZeroIsEmpty ==
    (call.op = "convertToByteArray" /\ IsZeroHex(call.arg)) =>
        /\ ret.ok
        /\ ret.v = Bytes(<<>>)

\* C6 as amended: convertToByteArray returns the empty byte sequence for the hex
\* string '0x0'; a zero-valued hex string of n >= 2 digits comes back as
\* ceil(n/2) bytes 0x00.
C6_OnlyCanonicalZeroIsEmpty ==
    (call.op = "convertToByteArray" /\ IsZeroHex(call.arg)) =>
        LET n == Len(call.arg.v) - 2
        IN  /\ ret.ok
            /\ n = 1 => ret.v = Bytes(<<>>)
            /\ n >= 2 => ret.v = Bytes([i \in 1..((n + 1) \div 2) |-> 0])

C6_Witness ==
    /\ call.op = "convertToByteArray"
    /\ IsStr(call.arg, <<"0", "x", "0">>)
    /\ ret.ok
    /\ ret.v = Bytes(<<>>)

\* C7: serialiseTransaction ends with a result for every type '0x1' or '0x2'
\* transaction, its access list normalised leaf by leaf with the nesting kept.
C7_AccessListTerminates ==
    (call.op = "serialiseTransaction" /\ (TypeIs(call.arg, "1") \/ TypeIs(call.arg, "2"))) =>
        /\ ret.ok
        /\ Len(handed) = 1
        /\ handed[1][IF TypeIs(call.arg, "1") THEN 8 ELSE 9]
               = NormalisedAccessList(Get(call.arg, "accessList"))

\* C8: a transaction whose type is absent or none of '0x0', '0x1', '0x2' is
\* serialised in the Legacy layout: the RLP encoding of its 9 Legacy fields, with
\* no marker byte and no error.
C8_UnknownTypeIsLegacy ==
    (call.op = "serialiseTransaction" /\ ~KnownType(call.arg)) =>
        /\ ret.ok
        /\ ret.v = encode(List([i \in 1..9 |->
                       convertToByteArray(Get(call.arg, DeclaredLegacy[i])).v]))

C8_Witness ==
    /\ call.op = "serialiseTransaction"
    /\ TypeIs(call.arg, "3")
    /\ Len(Get(call.arg, "accessList").v) > 0
    /\ ret.ok
    /\ Len(handed[1]) = 9

CallList ==
    IF call.op = "calculateBlockTransactionHashes" THEN call.arg.transactions ELSE call.arg

\* C9: only the first entry decides: a list that starts with a hash string gives the
\* empty list, the empty list gives the empty list, and of a list that starts with a
\* full record every entry is hashed.
C9_FirstEntryDecides ==
    (call.op \in {"calculateTransactionHashes", "calculateBlockTransactionHashes"}) =>
        /\ (Len(CallList) > 0 /\ IsHashString(CallList[1])) => (ret.ok /\ Len(ret.v) = 0)
        /\ Len(CallList) = 0 => (ret.ok /\ Len(ret.v) = 0)
        /\ (Len(CallList) > 0 /\ IsRecord(CallList[1])) =>
               (ret.ok /\ Len(ret.v) = Len(CallList))

\* what the result holds for block n: its transaction tuples
ExpectedEntry(n) == [filled |-> TRUE, txs |-> blockTuples(n, ChainTransactions(n))]

\* C10: fetchTransactionsOverBlockRange(startingBlock, total, limit) returns, for
\* every range of blocks the chain holds and every completion order, exactly total
\* entries, the k-th holding the transactions of block startingBlock + k, and never
\* has more than limit block requests of a group in flight.
C10_FetchReturnsRangeInOrder ==
    /\ pc = "awaitGroup" => Cardinality(inflight) <= limit
    /\ (pc = "threw" /\ prep.caller = "outer") =>
           startingBlock + total - 1 > prep.currentHead
    /\ pc = "returned" =>
           /\ Len(result) = total
           /\ \A k \in 0..(total - 1) : result[k + 1] = ExpectedEntry(startingBlock + k)

DirectEnded == prep.caller = "direct" /\ pc \in {"prepared", "threw"}

LastOfRange == prep.starting + prep.total - 1

\* C11: prepareBlockRangeQuery(starting, total) fails with the 'Range provided
\* includes blocks that have not been added to the chain yet!' error exactly when
\* the range holds a block number above the current head, and for every range whose
\* last block is at or below the head returns starting, ..., starting + total - 1.
C11_RangeErrorIffBeyondHead ==
    DirectEnded =>
        /\ (pc = "threw" /\ err = RangeError) <=> LastOfRange > prep.currentHead
        /\ LastOfRange <= prep.currentHead =>
               /\ pc = "prepared"
               /\ params = [k \in 1..prep.total |-> prep.starting + k - 1]

(* ---------------- what holds of the calls that do return --------------- *)
\* a serialisation that returns is the declared marker and RLP payload
ReturnedEnvelope ==
    (call.op = "serialiseTransaction" /\ KnownType(call.arg) /\ ret.ok) =>
        ret.v = DeclaredMarker(call.arg) \o encode(List(DeclaredItems(call.arg)))

\* a batch over full records that returns is aligned with its input
ReturnedBatchAligned ==
    (call.op \in {"calculateTransactionHashes", "serialiseTransactions"} /\ ret.ok
     /\ \A i \in 1..Len(call.arg) : IsRecord(call.arg[i])) =>
        /\ Len(ret.v) = Len(call.arg)
        /\ \A i \in 1..Len(call.arg) :
               ret.v[i] = IF call.op = "serialiseTransactions"
                          THEN serialiseTransaction(call.arg[i]).v
                          ELSE calculateTransactionHash(call.arg[i]).v

\* a fetch that returns holds the blocks of the range in ascending order, and a
\* group never has more than limit requests in flight
ReturnedFetchOrdered ==
    /\ pc = "awaitGroup" => Cardinality(inflight) <= limit
    /\ pc = "returned" =>
           /\ Len(result) = total
           /\ \A k \in 0..(total - 1) : result[k + 1] = ExpectedEntry(startingBlock + k)

\* a range query that returns gives the ascending block numbers of a range that
\* ends below the head it read
PreparedRangeAscending ==
    (prep.caller = "direct" /\ pc = "prepared") =>
        /\ params = [k \in 1..prep.total |-> prep.starting + k - 1]
        /\ LastOfRange < prep.currentHead

====
